---- MODULE Spec2Model ----
(***************************************************************************)
(* A model of the radix trie of brpandey/radix_trie: Node (node.rs), the   *)
(* traversal primitive (traverse.rs), the delete planner (delete.rs), the  *)
(* query helpers (query.rs) and the Trie handle (trie.rs).                 *)
(*                                                                         *)
(* Option<T> is modelled as a sequence of length at most one: None is <<>> *)
(* and Some(x) is <<x>>.  A Node is a record [label, value, tag, edges];   *)
(* edges is a function from the set of first bytes to the child nodes, as  *)
(* the HashMap<u8, Box<Node>> of the source.  A panic of the program       *)
(* (unwrap of None, index out of bounds, unreachable!()) is an abort: the  *)
(* operator that models the function reports it and the process stops.    *)
(***************************************************************************)
EXTENDS Integers, Sequences, FiniteSets, TLC

(* ---------------------------------------------------------------- bounds *)

\* Longest token (key, prefix) the callers pass.
MaxLen == 3

\* Cap on the size counter: insert is called only while size < MaxSize.
MaxSize == 3

\* Cap on the size counter for the callers whose calls run loop by loop.
StepSize == 2

\* The bytes tokens are made of ('a', 'b') and the values callers store.
Bytes == {97, 98}
Values == {1, 2}

Tokens == UNION {[1..n -> Bytes] : n \in 0..MaxLen}
NonEmptyTokens == Tokens \ {<<>>}

(* --------------------------------------------------------------- options *)

None == <<>>
Some(x) == <<x>>
is_some(o) == o # None
unwrap(o) == o[1]

(* ------------------------------------------------------------------ Node *)

NoEdges == [b \in {} |-> b]

Node_new(label, tag, value) ==
    [label |-> label, value |-> value, tag |-> tag, edges |-> NoEdges]

Node_default == Node_new(None, "Inner", None)

is_key(node) == node.tag = "Key"

\* 0 stands for no edge type (None), 1 for Single, n >= 2 for Branching(n).
edge_type(node) == Cardinality(DOMAIN node.edges)

edges_insert(edges, key, child) ==
    [b \in (DOMAIN edges) \cup {key} |-> IF b = key THEN child ELSE edges[b]]

edges_remove(edges, key) ==
    [b \in (DOMAIN edges) \ {key} |-> edges[b]]

\* The accessors of Node the planner, the queries and the iterators call.  The
\* HashMap yields its entries in an order the program does not fix; the model
\* lists them by ascending byte, and nothing below depends on the order but
\* the order of the list all_keys returns.
RECURSIVE edges_keys_iter(_)
edges_keys_iter(node) ==
    IF DOMAIN node.edges = {} THEN <<>>
    ELSE LET k == CHOOSE b \in DOMAIN node.edges : \A c \in DOMAIN node.edges : b <= c
         IN << k >> \o edges_keys_iter([node EXCEPT !.edges = edges_remove(node.edges, k)])

edges_values_iter(node) ==
    [i \in 1..Len(edges_keys_iter(node)) |-> node.edges[edges_keys_iter(node)[i]]]

(* -------------------------------------------------------------- traverse *)

SuffixType_new(edge_suffix, token_suffix) ==
    [ type  |-> CASE Len(edge_suffix) = 0 /\ Len(token_suffix) = 0 -> "Empty"
                  [] Len(edge_suffix) = 0 /\ Len(token_suffix) > 0 -> "OnlyToken"
                  [] Len(edge_suffix) > 0 /\ Len(token_suffix) = 0 -> "OnlyEdge"
                  [] OTHER -> "BothEdgeToken",
      edge  |-> edge_suffix,
      token |-> token_suffix ]

\* The zip loop of traverse_match: the length of the common prefix.
RECURSIVE common_index(_, _, _)
common_index(token, label, index) ==
    IF index < Len(token) /\ index < Len(label) /\ token[index + 1] = label[index + 1]
    THEN common_index(token, label, index + 1)
    ELSE index

split_at(s, index) == << SubSeq(s, 1, index), SubSeq(s, index + 1, Len(s)) >>

\* kind is "Panic" (token[0] of an empty token, unwrap of an absent label),
\* "None" or "Some" (a KeyMatch).
traverse_match(node, token) ==
    IF token = <<>> THEN [kind |-> "Panic"]
    ELSE LET edge_key == token[1] IN
         IF edge_key \notin DOMAIN node.edges THEN [kind |-> "None"]
         ELSE LET next_node == node.edges[edge_key] IN
              IF next_node.label = None THEN [kind |-> "Panic"]
              ELSE LET label == unwrap(next_node.label)
                       index == common_index(token, label, 0)
                       common == split_at(label, index)[1]
                       edge_suffix == split_at(label, index)[2]
                       token_suffix == split_at(token, index)[2]
                   IN IF common = <<>> THEN [kind |-> "None"]
                      ELSE [ kind     |-> "Some",
                             next     |-> next_node,
                             common   |-> common,
                             leftover |-> SuffixType_new(edge_suffix, token_suffix),
                             edge_key |-> edge_key ]

TraverseItem(node, next_key, label, level) ==
    [node |-> node, next_key |-> next_key, label |-> label, level |-> level]

IsFold(traverse_type) == traverse_type \in {"Fold", "FoldOrPartial"}

traverse_fold_helper(node, level, stack, traverse_type) ==
    IF IsFold(traverse_type)
    THEN LET backfilled ==
                 IF is_some(node.label) /\ stack # <<>>
                 THEN [stack EXCEPT ![Len(stack)].next_key = unwrap(node.label)[1]]
                 ELSE stack
         IN Append(backfilled, TraverseItem(node, 0, node.label, level))
    ELSE stack

\* The value traverse builds after its loop.
traverse_value(current, partial_terminal, stack, traverse_type) ==
    IF traverse_type = "Search"
    THEN IF is_some(partial_terminal)
         THEN [ kind |-> "PartialTerminal", is_key |-> is_key(current),
                node |-> current, sufx |-> unwrap(partial_terminal) ]
         ELSE [kind |-> "Terminal", is_key |-> is_key(current), node |-> current]
    ELSE [kind |-> "Stack", stack |-> stack]

RECURSIVE traverse_loop(_, _, _, _, _)
traverse_loop(current, nav_token, level0, stack, traverse_type) ==
    LET level == level0 + 1
        m == traverse_match(current, nav_token)
    IN CASE m.kind = "Panic" -> [kind |-> "Panic"]
         [] m.kind = "None" ->
                IF traverse_type = "FoldOrPartial" /\ stack # <<>>
                THEN traverse_value(current, None, stack, traverse_type)
                ELSE [kind |-> "None"]
         [] m.kind = "Some" /\ m.leftover.type = "Empty" ->
                traverse_value(m.next, None,
                    traverse_fold_helper(m.next, level, stack, traverse_type),
                    traverse_type)
         [] m.kind = "Some" /\ m.leftover.type = "OnlyToken" ->
                traverse_loop(m.next, m.leftover.token, level,
                    traverse_fold_helper(m.next, level, stack, traverse_type),
                    traverse_type)
         [] m.kind = "Some" /\ m.leftover.type = "OnlyEdge" ->
                CASE traverse_type = "Search" ->
                         traverse_value(m.next, Some(m.leftover.edge), stack, traverse_type)
                  [] traverse_type = "FoldOrPartial" ->
                         traverse_value(current, None, stack, traverse_type)
                  [] OTHER -> [kind |-> "None"]
         [] OTHER -> [kind |-> "None"]

\* traverse with Fold handled as FoldOrPartial: a token that cannot be consumed
\* yields the stack of the part that matched.
traverse_fold_as_partial(node, token, traverse_type) ==
    traverse_loop(node, token, 0, << TraverseItem(node, 0, None, 0) >>,
                  IF traverse_type = "Fold" THEN "FoldOrPartial" ELSE traverse_type)

\* kind is "Panic", "None", "Stack", "Terminal" or "PartialTerminal".
traverse(node, token, traverse_type) ==
    traverse_loop(node, token, 0, << TraverseItem(node, 0, None, 0) >>, traverse_type)

(* ---------------------------------------------------------- Node::search *)

\* Node_search with the partial match taken for a full one: the value of the
\* node is returned although the token ends inside its label.
Node_search_partial(node, prefix) ==
    LET result == traverse(node, prefix, "Search") IN
    CASE result.kind = "Panic" -> [result |-> None, abort |-> TRUE]
      [] result.kind \in {"Terminal", "PartialTerminal"} /\ result.is_key ->
             [result |-> result.node.value, abort |-> FALSE]
      [] OTHER -> [result |-> None, abort |-> FALSE]

\* [result |-> Option<V>, abort |-> BOOLEAN]
Node_search(node, prefix) ==
    LET result == traverse(node, prefix, "Search") IN
    CASE result.kind = "Panic" -> [result |-> None, abort |-> TRUE]
      [] result.kind = "Terminal" /\ result.is_key ->
             [result |-> result.node.value, abort |-> FALSE]
      [] OTHER -> [result |-> None, abort |-> FALSE]

(* ---------------------------------------------------------- Node::insert *)

\* insert_bridge that files the old node in the bridge under the byte it had
\* in its parent, not under the first byte of its new label.
insert_bridge_old_key(self, byte_key, common, suffix_edge) ==
    IF common = <<>> \/ suffix_edge = <<>> \/ byte_key \notin DOMAIN self.edges
    THEN [node |-> self, abort |-> TRUE]
    ELSE LET old_node == [self.edges[byte_key] EXCEPT !.label = Some(suffix_edge)]
             bridge_node == [ Node_new(Some(common), "Inner", None)
                              EXCEPT !.edges = edges_insert(NoEdges, byte_key, old_node) ]
         IN [ node  |-> [self EXCEPT !.edges =
                             edges_insert(edges_remove(self.edges, byte_key),
                                          byte_key, bridge_node)],
              abort |-> FALSE ]

\* The node with the edge byte_key split by a bridge node; abort when the
\* unreachable!() of the source is reached.
insert_bridge(self, byte_key, common, suffix_edge) ==
    IF common = <<>> \/ suffix_edge = <<>> \/ byte_key \notin DOMAIN self.edges
    THEN [node |-> self, abort |-> TRUE]
    ELSE LET old_node == [self.edges[byte_key] EXCEPT !.label = Some(suffix_edge)]
             next_byte_key == suffix_edge[1]
             bridge_node == [ Node_new(Some(common), "Inner", None)
                              EXCEPT !.edges = edges_insert(NoEdges, next_byte_key, old_node) ]
         IN [ node  |-> [self EXCEPT !.edges =
                             edges_insert(edges_remove(self.edges, byte_key),
                                          byte_key, bridge_node)],
              abort |-> FALSE ]

\* insert_finish without the mem::replace that hands the old node's edges to
\* the new node: a replaced key loses its children.
insert_finish_drops_edges(current, value) ==
    IF current.tag = "Inner"
    THEN [ node |-> [current EXCEPT !.tag = "Key", !.value = Some(value)],
           old  |-> None, abort |-> FALSE ]
    ELSE [ node |-> Node_new(current.label, "Key", Some(value)),
           old  |-> current.value, abort |-> FALSE ]

\* insert_finish that stores the value in an Inner node and leaves its tag.
insert_finish_no_tag(current, value) ==
    IF current.tag = "Inner"
    THEN [ node |-> [current EXCEPT !.value = Some(value)],
           old  |-> None, abort |-> FALSE ]
    ELSE [ node |-> [ Node_new(current.label, "Key", Some(value))
                      EXCEPT !.edges = current.edges ],
           old  |-> current.value, abort |-> FALSE ]

\* The match on current.tag that ends Node::insert.
insert_finish(current, value) ==
    IF current.tag = "Inner"
    THEN [ node |-> [current EXCEPT !.tag = "Key", !.value = Some(value)],
           old  |-> None, abort |-> FALSE ]
    ELSE [ node |-> [ Node_new(current.label, "Key", Some(value))
                      EXCEPT !.edges = current.edges ],
           old  |-> current.value, abort |-> FALSE ]

\* The descent loop of Node::insert from current with nav_token left:
\* [node |-> current after the call, old |-> the replaced value, abort].
RECURSIVE insert_loop(_, _, _)
insert_loop(current, nav_token, value) ==
    LET m == traverse_match(current, nav_token)
        Below(parent, r) ==
            [ node  |-> [parent EXCEPT !.edges = edges_insert(parent.edges, m.edge_key, r.node)],
              old   |-> r.old,
              abort |-> r.abort ]
    IN CASE m.kind = "Panic" -> [node |-> current, old |-> None, abort |-> TRUE]
         [] m.kind = "None" ->
                LET key == nav_token[1]
                    r == insert_finish(Node_new(Some(nav_token), "Key", None), value)
                IN [ node  |-> [current EXCEPT !.edges = edges_insert(current.edges, key, r.node)],
                     old   |-> r.old,
                     abort |-> FALSE ]
         [] m.kind = "Some" /\ m.leftover.type = "Empty" ->
                Below(current, insert_finish(current.edges[m.edge_key], value))
         [] m.kind = "Some" /\ m.leftover.type = "OnlyToken" ->
                Below(current, insert_loop(current.edges[m.edge_key], m.leftover.token, value))
         [] m.kind = "Some" /\ m.leftover.type = "OnlyEdge" ->
                LET b == insert_bridge(current, m.edge_key, m.common, m.leftover.edge) IN
                IF b.abort THEN [node |-> b.node, old |-> None, abort |-> TRUE]
                ELSE Below(b.node, insert_finish(b.node.edges[m.edge_key], value))
         [] OTHER ->
                LET b == insert_bridge(current, m.edge_key, m.common, m.leftover.edge) IN
                IF b.abort THEN [node |-> b.node, old |-> None, abort |-> TRUE]
                ELSE Below(b.node, insert_loop(b.node.edges[m.edge_key], m.leftover.token, value))

Node_insert(self, token, value) ==
    IF token = <<>>
    THEN [node |-> self, old |-> None, abort |-> FALSE]
    ELSE insert_loop(self, token, value)

(* ---------------------------------------------------------------- delete *)

\* Playback directives and their cursors, in one record shape:
\* Unmark(Node(level)), Prune(Link(level, key)), MergeTemp(key),
\* Merge(DoubleLink(level, key, merge_key)), Keep(Link(level, key)).
Unmark(level) ==
    [pb |-> "Unmark", cursor |-> "Node", level |-> level, key |-> 0, merge_key |-> 0]
Prune(level, key) ==
    [pb |-> "Prune", cursor |-> "Link", level |-> level, key |-> key, merge_key |-> 0]
MergeTemp(key) ==
    [pb |-> "MergeTemp", cursor |-> "none", level |-> 0, key |-> key, merge_key |-> 0]
Merge(level, key, merge_key) ==
    [pb |-> "Merge", cursor |-> "DoubleLink", level |-> level, key |-> key, merge_key |-> merge_key]
Keep(level, key) ==
    [pb |-> "Keep", cursor |-> "Link", level |-> level, key |-> key, merge_key |-> 0]

pop(s) == SubSeq(s, 1, Len(s) - 1)
top(s) == s[Len(s)]

\* capture_first that leaves the pending action Noop for a childless Key node.
capture_first_no_prune(item) ==
    IF is_key(item.node)
    THEN CASE edge_type(item.node) = 1 ->
                  [ replay |-> << Unmark(item.level),
                                  MergeTemp(top(edges_keys_iter(item.node))) >>,
                    status |-> {"Deleted"}, action |-> "Merge" ]
           [] OTHER ->
                  [replay |-> << Unmark(item.level) >>, status |-> {"Deleted"}, action |-> "Noop"]
    ELSE [replay |-> << >>, status |-> {}, action |-> "Noop"]

\* capture_first that plans no merge for a Key node with a single child.
capture_first_no_merge(item) ==
    IF is_key(item.node)
    THEN CASE edge_type(item.node) = 0 ->
                  [replay |-> << Unmark(item.level) >>, status |-> {"Deleted"}, action |-> "Prune"]
           [] OTHER ->
                  [replay |-> << Unmark(item.level) >>, status |-> {"Deleted"}, action |-> "Noop"]
    ELSE [replay |-> << >>, status |-> {}, action |-> "Noop"]

\* What capture does with the frame it pops first, the node the token ends on:
\* the start of the replay, the status set and the pending action.
capture_first(item) ==
    IF is_key(item.node)
    THEN CASE edge_type(item.node) = 0 ->
                  [replay |-> << Unmark(item.level) >>, status |-> {"Deleted"}, action |-> "Prune"]
           [] edge_type(item.node) = 1 ->
                  [ replay |-> << Unmark(item.level),
                                  MergeTemp(top(edges_keys_iter(item.node))) >>,
                    status |-> {"Deleted"}, action |-> "Merge" ]
           [] OTHER ->
                  [replay |-> << Unmark(item.level) >>, status |-> {"Deleted"}, action |-> "Noop"]
    ELSE [replay |-> << >>, status |-> {}, action |-> "Noop"]

\* The secondary-merge test looking for the status Deleted, which the Prune
\* just emitted has replaced by DeletedPruned.
capture_passthrough_deleted(action, status, node) ==
    /\ action = "Prune"
    /\ "Deleted" \in status /\ Cardinality(status) = 1
    /\ ~is_key(node)
    /\ edge_type(node) = 2

\* The secondary-merge test capture makes after it has emitted a directive.
capture_passthrough(action, status, node) ==
    /\ action = "Prune"
    /\ "DeletedPruned" \in status /\ Cardinality(status) = 1
    /\ ~is_key(node)
    /\ edge_type(node) = 2

\* The pending action left at Prune instead of Noop when the frame is no
\* passthrough.
capture_action_prune(passthrough) == IF passthrough THEN "Merge" ELSE "Prune"

\* The pending action capture sets at the end of an iteration, passthrough
\* being the outcome of the secondary-merge test.
capture_action(passthrough) == IF passthrough THEN "Merge" ELSE "Noop"

\* The while loop of capture over the ancestors' frames, top of the stack first.
RECURSIVE capture_loop(_, _, _, _)
capture_loop(stack, replay, status, action) ==
    IF stack = <<>> THEN [replay |-> replay, abort |-> FALSE]
    ELSE LET item == top(stack)
             emitted ==
                 CASE action = "Prune" ->
                          [ replay |-> Append(replay, Prune(item.level, item.next_key)),
                            status |-> (status \ {"Deleted"}) \cup {"DeletedPruned"},
                            abort  |-> FALSE ]
                   [] action = "Merge" ->
                          IF replay # <<>> /\ top(replay).pb = "MergeTemp"
                          THEN [ replay |-> Append(pop(replay),
                                                Merge(item.level, item.next_key, top(replay).key)),
                                 status |-> status \cup {"Merged"},
                                 abort  |-> FALSE ]
                          ELSE [replay |-> replay, status |-> status, abort |-> TRUE]
                   [] OTHER ->
                          [ replay |-> Append(replay, Keep(item.level, item.next_key)),
                            status |-> status,
                            abort  |-> FALSE ]
         IN IF emitted.abort THEN [replay |-> emitted.replay, abort |-> TRUE]
            ELSE IF capture_passthrough(action, emitted.status, item.node)
                 THEN LET merge_key == CHOOSE k \in (DOMAIN item.node.edges) \ {item.next_key} : TRUE
                      IN capture_loop(pop(stack), Append(emitted.replay, MergeTemp(merge_key)),
                                      emitted.status, capture_action(TRUE))
                 ELSE capture_loop(pop(stack), emitted.replay, emitted.status,
                                   capture_action(FALSE))

\* What capture returns once its loop has ended: kind is "Panic", "None" or
\* "Some" (with the plan, the last directive pushed last: Node::remove pops it
\* first).
capture_plan(looped) ==
    CASE looped.abort -> [kind |-> "Panic"]
      [] looped.replay = <<>> -> [kind |-> "None"]
      [] OTHER -> [kind |-> "Some", plan |-> looped.replay]

\* capture on the frames traverse has folded: first is what the first frame
\* popped gave, stack the frames of its ancestors.
capture_frames(first, stack) ==
    capture_plan(capture_loop(stack, first.replay, first.status, first.action))

\* capture on the result of the traversal.
capture_traversed(result) ==
    CASE result.kind = "Panic" -> [kind |-> "Panic"]
      [] result.kind = "None" -> [kind |-> "None"]
      [] OTHER -> capture_frames(capture_first(top(result.stack)), pop(result.stack))

capture(current, prefix) == capture_traversed(traverse(current, prefix, "Fold"))

(* ---------------------------------------------------------- Node::remove *)

\* handle_passthrough without la.append(lb): the merged node keeps its own
\* label only.
handle_passthrough_no_append(self, edge_key, merge_key) ==
    IF \/ edge_key \notin DOMAIN self.edges
       \/ merge_key \notin DOMAIN self.edges[edge_key].edges
       \/ self.edges[edge_key].label = None
       \/ self.edges[edge_key].edges[merge_key].label = None
    THEN [node |-> self, passthrough |-> self, abort |-> TRUE]
    ELSE LET y == self.edges[edge_key]
             merged == y.edges[merge_key]
             passthrough == [y EXCEPT !.label = None, !.edges = edges_remove(y.edges, merge_key)]
         IN [ node        |-> [self EXCEPT !.edges =
                                   edges_insert(edges_remove(self.edges, edge_key), edge_key, merged)],
              passthrough |-> passthrough,
              abort       |-> FALSE ]

\* [node |-> self after the merge, passthrough |-> the detached child, abort]
handle_passthrough(self, edge_key, merge_key) ==
    IF \/ edge_key \notin DOMAIN self.edges
       \/ merge_key \notin DOMAIN self.edges[edge_key].edges
       \/ self.edges[edge_key].label = None
       \/ self.edges[edge_key].edges[merge_key].label = None
    THEN [node |-> self, passthrough |-> self, abort |-> TRUE]
    ELSE LET y == self.edges[edge_key]
             la == unwrap(y.label)
             lb == unwrap(y.edges[merge_key].label)
             merged == [y.edges[merge_key] EXCEPT !.label = Some(la \o lb)]
             passthrough == [y EXCEPT !.label = None, !.edges = edges_remove(y.edges, merge_key)]
         IN [ node        |-> [self EXCEPT !.edges =
                                   edges_insert(edges_remove(self.edges, edge_key), edge_key, merged)],
              passthrough |-> passthrough,
              abort       |-> FALSE ]

\* The Unmark arm that takes the value and leaves the tag Key.
remove_unmark_keeps_tag(current) == [current EXCEPT !.value = None]

\* The Unmark arm of Node::remove: the tag becomes Inner, the value is taken.
remove_unmark(current) == [current EXCEPT !.tag = "Inner", !.value = None]

\* The while loop of Node::remove at current with the directives left, the
\* level counter and the value taken so far:
\* [node |-> current after the loop, value |-> Option<V>, abort].
RECURSIVE remove_loop(_, _, _, _)
remove_loop(current, replay, counter, value) ==
    IF replay = <<>> THEN [node |-> current, value |-> value, abort |-> FALSE]
    ELSE LET item == top(replay)
             rest == pop(replay)
             Panic == [node |-> current, value |-> value, abort |-> TRUE]
         IN CASE item.pb = "Keep" /\ item.level = counter ->
                     IF item.key \notin DOMAIN current.edges THEN Panic
                     ELSE LET r == remove_loop(current.edges[item.key], rest, counter + 1, value)
                          IN [ node  |-> [current EXCEPT !.edges =
                                              edges_insert(current.edges, item.key, r.node)],
                               value |-> r.value, abort |-> r.abort ]
              [] item.pb = "Merge" /\ item.level = counter ->
                     LET h == handle_passthrough(current, item.key, item.merge_key) IN
                     IF h.abort THEN Panic
                     ELSE LET r == remove_loop(h.passthrough, rest, counter + 1, value)
                          IN [node |-> h.node, value |-> r.value, abort |-> r.abort]
              [] item.pb = "Prune" /\ item.level = counter ->
                     IF item.key \notin DOMAIN current.edges THEN Panic
                     ELSE LET r == remove_loop(current.edges[item.key], rest, counter + 1, value)
                          IN [ node  |-> [current EXCEPT !.edges = edges_remove(current.edges, item.key)],
                               value |-> r.value, abort |-> r.abort ]
              [] item.pb = "Unmark" /\ item.level = counter ->
                     remove_loop(remove_unmark(current), rest, counter + 1, current.value)
              [] OTHER -> Panic

\* Node::remove with the plan capture gave:
\* [node |-> self after the call, result |-> Option<V>, abort]
Node_remove_replay(self, replay) ==
    CASE replay.kind = "Panic" -> [node |-> self, result |-> None, abort |-> TRUE]
      [] replay.kind = "None" -> [node |-> self, result |-> None, abort |-> FALSE]
      [] OTHER -> LET r == remove_loop(self, replay.plan, 0, None)
                  IN [node |-> r.node, result |-> r.value, abort |-> r.abort]

Node_remove(self, prefix) == Node_remove_replay(self, capture(self, prefix))

(* ----------------------------------------------------------------- query *)

\* The fold of stack.drain(1..) in longest_prefix: the labels present, in order.
RECURSIVE drain_labels(_, _)
drain_labels(stack, from) ==
    IF from > Len(stack) THEN <<>>
    ELSE (IF is_some(stack[from].label) THEN unwrap(stack[from].label) ELSE <<>>)
         \o drain_labels(stack, from + 1)

\* The while loop of longest_prefix over the frames, top of the stack first.
RECURSIVE longest_prefix_loop(_, _)
longest_prefix_loop(stack, result) ==
    IF stack = <<>> THEN [result |-> result, abort |-> FALSE]
    ELSE LET item == top(stack)
             rest == pop(stack)
         IN IF is_key(item.node)
            THEN IF Len(rest) < 1 \/ item.label = None
                 THEN [result |-> result, abort |-> TRUE]
                 ELSE longest_prefix_loop(SubSeq(rest, 1, 1),
                          Some(drain_labels(rest, 2) \o unwrap(item.label)))
            ELSE longest_prefix_loop(rest, result)

\* [result |-> Option of the bytes the returned iterator yields, abort]
longest_prefix(node, prefix) ==
    LET value == traverse(node, prefix, "FoldOrPartial") IN
    CASE value.kind = "Panic" -> [result |-> None, abort |-> TRUE]
      [] value.kind = "None" -> [result |-> None, abort |-> FALSE]
      [] value.kind = "Stack" -> longest_prefix_loop(value.stack, None)
      [] OTHER -> [result |-> None, abort |-> TRUE]

\* The backlog entries all_keys pushes for the children of current.
all_keys_children(current, bytes) ==
    [ i \in 1..Len(edges_values_iter(current)) |->
        LET child == edges_values_iter(current)[i] IN
        [ node  |-> child,
          bytes |-> bytes \o (IF is_some(child.label) THEN unwrap(child.label) ELSE <<>>),
          bad   |-> child.label = None ] ]

\* The BFS loop of all_keys.
RECURSIVE all_keys_loop(_, _)
all_keys_loop(backlog, result) ==
    IF backlog = <<>> THEN [result |-> Some(result), abort |-> FALSE]
    ELSE LET current == Head(backlog).node
             bytes == Head(backlog).bytes
             children == all_keys_children(current, bytes)
         IN IF \E i \in 1..Len(children) : children[i].bad
            THEN [result |-> None, abort |-> TRUE]
            ELSE all_keys_loop(Tail(backlog) \o children,
                               IF is_key(current) THEN Append(result, bytes) ELSE result)

\* all_keys without the leftover edge suffix in the seed of a partial match.
all_keys_no_leftover(node, prefix) ==
    LET result == traverse(node, prefix, "Search") IN
    CASE result.kind = "Panic" -> [result |-> None, abort |-> TRUE]
      [] result.kind = "None" -> [result |-> None, abort |-> FALSE]
      [] result.kind \in {"Terminal", "PartialTerminal"} ->
             all_keys_loop(<< [node |-> result.node, bytes |-> prefix, bad |-> FALSE] >>, <<>>)
      [] OTHER -> [result |-> None, abort |-> TRUE]

\* all_keys that gives none for a prefix ending inside a label.
all_keys_exact_only(node, prefix) ==
    LET result == traverse(node, prefix, "Search") IN
    CASE result.kind = "Panic" -> [result |-> None, abort |-> TRUE]
      [] result.kind = "None" -> [result |-> None, abort |-> FALSE]
      [] result.kind = "Terminal" ->
             all_keys_loop(<< [node |-> result.node, bytes |-> prefix, bad |-> FALSE] >>, <<>>)
      [] result.kind = "PartialTerminal" -> [result |-> None, abort |-> FALSE]
      [] OTHER -> [result |-> None, abort |-> TRUE]

\* [result |-> Option<Vec<Vec<u8>>>, abort]
all_keys(node, prefix) ==
    LET result == traverse(node, prefix, "Search") IN
    CASE result.kind = "Panic" -> [result |-> None, abort |-> TRUE]
      [] result.kind = "None" -> [result |-> None, abort |-> FALSE]
      [] result.kind = "Terminal" ->
             all_keys_loop(<< [node |-> result.node, bytes |-> prefix, bad |-> FALSE] >>, <<>>)
      [] result.kind = "PartialTerminal" ->
             all_keys_loop(<< [node |-> result.node, bytes |-> prefix \o result.sufx,
                               bad |-> FALSE] >>, <<>>)
      [] OTHER -> [result |-> None, abort |-> TRUE]

(* ------------------------------------------------------------------ iter *)

\* Node::value(): the stored value, if any.
Node_value(node) == node.value

\* NodeDFSIter::next that yields a leaf pair for every node with a label,
\* taking 0 for a value that is absent.
RECURSIVE NodeDFSIter_next_any_label(_, _)
NodeDFSIter_next_any_label(stack, itype) ==
    IF stack = <<>> THEN [stack |-> stack, item |-> None]
    ELSE LET n == top(stack)
             pushed == pop(stack) \o edges_values_iter(n)
         IN CASE itype = "Labels" /\ is_some(n.label) ->
                     [stack |-> pushed, item |-> Some(unwrap(n.label))]
              [] itype = "Values" /\ is_some(Node_value(n)) ->
                     [stack |-> pushed, item |-> Some(unwrap(Node_value(n)))]
              [] itype = "LabelsValues" /\ is_some(n.label) ->
                     [ stack |-> pushed,
                       item |-> Some(<< unwrap(n.label),
                                        IF is_some(Node_value(n)) THEN unwrap(Node_value(n)) ELSE 0 >>) ]
              [] OTHER -> NodeDFSIter_next_any_label(pushed, itype)

\* NodeDFSIter::next that pushes the children only of the nodes it skips.
RECURSIVE NodeDFSIter_next_extend_late(_, _)
NodeDFSIter_next_extend_late(stack, itype) ==
    IF stack = <<>> THEN [stack |-> stack, item |-> None]
    ELSE LET n == top(stack)
             pushed == pop(stack) \o edges_values_iter(n)
         IN CASE itype = "Labels" /\ is_some(n.label) ->
                     [stack |-> pop(stack), item |-> Some(unwrap(n.label))]
              [] itype = "Values" /\ is_some(Node_value(n)) ->
                     [stack |-> pop(stack), item |-> Some(unwrap(Node_value(n)))]
              [] itype = "LabelsValues" /\ is_some(n.label) /\ is_some(Node_value(n)) ->
                     [stack |-> pop(stack), item |-> Some(<< unwrap(n.label), unwrap(Node_value(n)) >>)]
              [] OTHER -> NodeDFSIter_next_extend_late(pushed, itype)

\* NodeDFSIter::next: pop a node, push its children, yield by iteration type;
\* [stack |-> the stack left, item |-> Option of the item yielded].
RECURSIVE NodeDFSIter_next(_, _)
NodeDFSIter_next(stack, itype) ==
    IF stack = <<>> THEN [stack |-> stack, item |-> None]
    ELSE LET n == top(stack)
             pushed == pop(stack) \o edges_values_iter(n)
         IN CASE itype = "Labels" /\ is_some(n.label) ->
                     [stack |-> pushed, item |-> Some(unwrap(n.label))]
              [] itype = "Values" /\ is_some(Node_value(n)) ->
                     [stack |-> pushed, item |-> Some(unwrap(Node_value(n)))]
              [] itype = "LabelsValues" /\ is_some(n.label) /\ is_some(Node_value(n)) ->
                     [stack |-> pushed, item |-> Some(<< unwrap(n.label), unwrap(Node_value(n)) >>)]
              [] OTHER -> NodeDFSIter_next(pushed, itype)

\* The items an iterator yields until it ends, in order.
RECURSIVE collect(_, _)
collect(stack, itype) ==
    LET nx == NodeDFSIter_next(stack, itype) IN
    IF nx.item = None THEN <<>> ELSE << unwrap(nx.item) >> \o collect(nx.stack, itype)

\* NodeDFSIterOwned::next (ValuesOwned): pop a node, push the children it
\* owns, yield its value if it has one.
RECURSIVE NodeDFSIterOwned_next(_)
NodeDFSIterOwned_next(stack) ==
    IF stack = <<>> THEN [stack |-> stack, item |-> None]
    ELSE LET n == top(stack)
             pushed == pop(stack) \o edges_values_iter(n)
         IN IF is_some(n.value)
            THEN [stack |-> pushed, item |-> Some(unwrap(n.value))]
            ELSE NodeDFSIterOwned_next(pushed)

\* The values the owning iterator yields until it ends, in order.
RECURSIVE collect_owned(_)
collect_owned(stack) ==
    LET nx == NodeDFSIterOwned_next(stack) IN
    IF nx.item = None THEN <<>> ELSE << unwrap(nx.item) >> \o collect_owned(nx.stack)

\* An exclusive reference into the tree at root is the edge bytes that lead
\* to the node: deref gives the node, write_value is *v = w on its value.
RECURSIVE deref(_, _)
deref(root, path) ==
    IF path = <<>> THEN root ELSE deref(root.edges[Head(path)], Tail(path))

RECURSIVE write_value(_, _, _)
write_value(root, path, w) ==
    IF path = <<>> THEN [root EXCEPT !.value = Some(w)]
    ELSE [root EXCEPT !.edges[Head(path)] = write_value(@, Tail(path), w)]

\* NodeDFSIterMut::next: pop a reference, push those to the node's children,
\* yield the reference to the node's value by iteration type;
\* [stack |-> the stack left, item |-> Option of the reference yielded].
RECURSIVE NodeDFSIterMut_next(_, _, _)
NodeDFSIterMut_next(root, stack, itype) ==
    IF stack = <<>> THEN [stack |-> stack, item |-> None]
    ELSE LET n == deref(root, top(stack))
             pushed == pop(stack) \o [i \in 1..Len(edges_keys_iter(n)) |->
                                         top(stack) \o << edges_keys_iter(n)[i] >>]
         IN CASE itype = "ValuesMut" /\ is_some(n.value) ->
                     [stack |-> pushed, item |-> Some(top(stack))]
              [] itype = "LabelsValuesMut" /\ is_some(n.label) /\ is_some(n.value) ->
                     [stack |-> pushed, item |-> Some(top(stack))]
              [] OTHER -> NodeDFSIterMut_next(root, pushed, itype)

\* A mutable iterator driven to its end by a caller that writes f[v] over
\* every value v it is handed: the tree at root afterwards.
RECURSIVE collect_mut(_, _, _, _)
collect_mut(root, stack, itype, f) ==
    LET nx == NodeDFSIterMut_next(root, stack, itype) IN
    IF nx.item = None THEN root
    ELSE collect_mut(write_value(root, unwrap(nx.item),
                                 f[unwrap(deref(root, unwrap(nx.item)).value)]),
                     nx.stack, itype, f)

(* ------------------------------------------------------------------ Trie *)

\* The handle: size: usize and root: Option<Node>.
Trie_new == [size |-> 0, root |-> None]

\* [trie |-> the handle after the call, result |-> Option<V>, abort]
Trie_insert(t, token, value) ==
    LET rooted == IF t.root = None THEN [t EXCEPT !.root = Some(Node_default)] ELSE t
        r == Node_insert(unwrap(rooted.root), token, value)
    IN [ trie   |-> [ size |-> IF ~r.abort /\ r.old = None THEN rooted.size + 1 ELSE rooted.size,
                      root |-> Some(r.node) ],
         result |-> r.old,
         abort  |-> r.abort ]

Trie_search(t, token) ==
    IF t.root = None
    THEN [result |-> None, abort |-> FALSE]
    ELSE Node_search(unwrap(t.root), token)

\* size: usize is decremented only when a key was removed (r is what
\* Node::remove gave at the root).
Trie_remove_root(t, r) ==
    [ trie   |-> [ size |-> IF ~r.abort /\ is_some(r.result) THEN t.size - 1 ELSE t.size,
                   root |-> Some(r.node) ],
      result |-> r.result,
      abort  |-> r.abort ]

Trie_remove(t, token) ==
    IF t.root = None
    THEN [trie |-> t, result |-> None, abort |-> FALSE]
    ELSE Trie_remove_root(t, Node_remove(unwrap(t.root), token))

Trie_longest_prefix(t, token) ==
    IF t.root = None
    THEN [result |-> None, abort |-> FALSE]
    ELSE longest_prefix(unwrap(t.root), token)

Trie_all_keys(t, token) ==
    IF t.root = None
    THEN [result |-> None, abort |-> FALSE]
    ELSE all_keys(unwrap(t.root), token)

\* Trie::values, collected: the default iterator (empty stack) without a root.
Trie_values(t) ==
    collect(IF t.root = None THEN <<>> ELSE << unwrap(t.root) >>, "Values")

\* Trie::iter, Trie::labels and the owning Trie::into_iter, collected.
Trie_iter(t) ==
    collect(IF t.root = None THEN <<>> ELSE << unwrap(t.root) >>, "LabelsValues")

Trie_labels(t) ==
    collect(IF t.root = None THEN <<>> ELSE << unwrap(t.root) >>, "Labels")

Trie_into_iter(t) ==
    collect_owned(IF t.root = None THEN <<>> ELSE << unwrap(t.root) >>)

\* Trie::values_mut and Trie::iter_mut, driven to their end by a caller that
\* writes f[v] over every value v: the handle afterwards.
Trie_values_mut(t, f) ==
    IF t.root = None THEN t
    ELSE [t EXCEPT !.root = Some(collect_mut(unwrap(t.root), << <<>> >>, "ValuesMut", f))]

Trie_iter_mut(t, f) ==
    IF t.root = None THEN t
    ELSE [t EXCEPT !.root = Some(collect_mut(unwrap(t.root), << <<>> >>, "LabelsValuesMut", f))]

Trie_is_empty(t) == t.size = 0

Trie_clear(t) == [size |-> 0, root |-> None]

(* ----------------------------------------------------------------- state *)

VARIABLES
    trie,   \* the Trie handle
    ref,    \* reference map: the tokens stored by the calls so far, each with its value
    pc,     \* "idle": between calls; "returned": a call has returned; "aborted": it panicked
    call,   \* the last call: [op, token, value]
    ret,    \* what the last call returned
    pre,    \* the handle and the reference map as they were before the last call
    frame   \* the locals of the loop a call is running, when calls run loop by loop

vars == << trie, ref, pc, call, ret, pre, frame >>

NoCall == [op |-> "none", token |-> <<>>, value |-> 0]

NoRef == [k \in {} |-> 0]

NoFrame == [phase |-> "none"]

Init ==
    /\ trie = Trie_new
    /\ ref = NoRef
    /\ pc = "idle"
    /\ call = NoCall
    /\ ret = None
    /\ pre = [trie |-> Trie_new, ref |-> NoRef]
    /\ frame = NoFrame

ref_put(m, token, value) ==
    [k \in (DOMAIN m) \cup {token} |-> IF k = token THEN value ELSE m[k]]

ref_del(m, token) == [k \in (DOMAIN m) \ {token} |-> m[k]]

Called(op, token, value, r) ==
    /\ call' = [op |-> op, token |-> token, value |-> value]
    /\ ret' = r.result
    /\ pc' = IF r.abort THEN "aborted" ELSE "returned"
    /\ pre' = [trie |-> trie, ref |-> ref]
    /\ UNCHANGED frame

Insert(token, value) ==
    /\ pc = "idle"
    /\ trie.size < MaxSize
    /\ LET r == Trie_insert(trie, token, value) IN
       /\ trie' = r.trie
       /\ ref' = IF token # <<>> /\ ~r.abort THEN ref_put(ref, token, value) ELSE ref
       /\ Called("insert", token, value, r)

Search(token) ==
    /\ pc = "idle"
    /\ LET r == Trie_search(trie, token) IN
       /\ UNCHANGED << trie, ref >>
       /\ Called("search", token, 0, r)

Remove(token) ==
    /\ pc = "idle"
    /\ LET r == Trie_remove(trie, token) IN
       /\ trie' = r.trie
       /\ ref' = IF ~r.abort THEN ref_del(ref, token) ELSE ref
       /\ Called("remove", token, 0, r)

LongestPrefix(token) ==
    /\ pc = "idle"
    /\ LET r == Trie_longest_prefix(trie, token) IN
       /\ UNCHANGED << trie, ref >>
       /\ Called("longest_prefix", token, 0, r)

AllKeys(token) ==
    /\ pc = "idle"
    /\ LET r == Trie_all_keys(trie, token) IN
       /\ UNCHANGED << trie, ref >>
       /\ Called("all_keys", token, 0, r)

Clear ==
    /\ pc = "idle"
    /\ trie' = Trie_clear(trie)
    /\ ref' = NoRef
    /\ Called("clear", <<>>, 0, [result |-> None, abort |-> FALSE])

\* The iterators, driven to their end: ret is the sequence of items yielded.
Iter ==
    /\ pc = "idle"
    /\ UNCHANGED << trie, ref >>
    /\ Called("iter", <<>>, 0, [result |-> Trie_iter(trie), abort |-> FALSE])

Labels ==
    /\ pc = "idle"
    /\ UNCHANGED << trie, ref >>
    /\ Called("labels", <<>>, 0, [result |-> Trie_labels(trie), abort |-> FALSE])

ValuesIter ==
    /\ pc = "idle"
    /\ UNCHANGED << trie, ref >>
    /\ Called("values", <<>>, 0, [result |-> Trie_values(trie), abort |-> FALSE])

\* What a caller of a mutable iterator writes over the values it is handed.
Writes == [Values -> Values]

\* The mutable iterators, driven to their end; call.value is f.
ValuesMut(f) ==
    /\ pc = "idle"
    /\ trie' = Trie_values_mut(trie, f)
    /\ ref' = [k \in DOMAIN ref |-> f[ref[k]]]
    /\ Called("values_mut", <<>>, f, [result |-> None, abort |-> FALSE])

IterMut(f) ==
    /\ pc = "idle"
    /\ trie' = Trie_iter_mut(trie, f)
    /\ ref' = [k \in DOMAIN ref |-> f[ref[k]]]
    /\ Called("iter_mut", <<>>, f, [result |-> None, abort |-> FALSE])

\* into_iter consumes the handle; the caller goes on with a new one.
IntoIter ==
    /\ pc = "idle"
    /\ trie' = Trie_new
    /\ ref' = NoRef
    /\ Called("into_iter", <<>>, 0, [result |-> Trie_into_iter(trie), abort |-> FALSE])

\* The caller takes the returned value and is ready for its next call.
Return ==
    /\ pc = "returned"
    /\ pc' = "idle"
    /\ call' = NoCall
    /\ ret' = None
    /\ pre' = [trie |-> trie, ref |-> ref]
    /\ frame' = NoFrame
    /\ UNCHANGED << trie, ref >>

Next ==
    \/ \E token \in Tokens, value \in Values : Insert(token, value)
    \/ \E token \in Tokens : Search(token)
    \/ \E token \in Tokens : Remove(token)
    \/ \E token \in Tokens : LongestPrefix(token)
    \/ \E token \in Tokens : AllKeys(token)
    \/ Clear
    \/ Iter
    \/ Labels
    \/ ValuesIter
    \/ IntoIter
    \/ \E f \in Writes : ValuesMut(f)
    \/ \E f \in Writes : IterMut(f)
    \/ Return

Spec == Init /\ [][Next]_vars

\* Callers that store and remove non-empty keys over three bytes ('a', 'b',
\* 'c') with one value, so that nodes with three outgoing edges arise.
WideBytes == {97, 98, 99}
WideTokens == UNION {[1..n -> WideBytes] : n \in 1..MaxLen}

NextWide ==
    \/ \E token \in WideTokens : Insert(token, 1)
    \/ \E token \in WideTokens : Remove(token)
    \/ Return

SpecWide == Init /\ [][NextWide]_vars

(* ------------------------------------------------- calls, loop by loop *)

\* One iteration of the descent loop of Node::insert that assigns no sufxt to
\* nav_token in the OnlyToken arm.
insert_step_keeps_token(current, nav_token) ==
    LET m == traverse_match(current, nav_token)
    IN CASE m.kind = "Panic" -> [kind |-> "panic"]
         [] m.kind = "None" ->
                [ kind |-> "break", current |-> Node_new(Some(nav_token), "Key", None),
                  nav_token |-> nav_token ]
         [] m.kind = "Some" /\ m.leftover.type = "Empty" ->
                [kind |-> "break", current |-> current.edges[m.edge_key], nav_token |-> nav_token]
         [] m.kind = "Some" /\ m.leftover.type = "OnlyToken" ->
                [ kind |-> "continue", current |-> current.edges[m.edge_key],
                  nav_token |-> nav_token ]
         [] m.kind = "Some" /\ m.leftover.type = "OnlyEdge" ->
                LET b == insert_bridge(current, m.edge_key, m.common, m.leftover.edge) IN
                IF b.abort THEN [kind |-> "panic"]
                ELSE [ kind |-> "break", current |-> b.node.edges[m.edge_key],
                       nav_token |-> nav_token ]
         [] OTHER ->
                LET b == insert_bridge(current, m.edge_key, m.common, m.leftover.edge) IN
                IF b.abort THEN [kind |-> "panic"]
                ELSE [ kind |-> "continue", current |-> b.node.edges[m.edge_key],
                       nav_token |-> m.leftover.token ]

\* One iteration of the descent loop of Node::insert: kind says whether the
\* loop continues, breaks or panics; current and nav_token are the locals
\* after it.
insert_step(current, nav_token) ==
    LET m == traverse_match(current, nav_token)
    IN CASE m.kind = "Panic" -> [kind |-> "panic"]
         [] m.kind = "None" ->
                [ kind |-> "break", current |-> Node_new(Some(nav_token), "Key", None),
                  nav_token |-> nav_token ]
         [] m.kind = "Some" /\ m.leftover.type = "Empty" ->
                [kind |-> "break", current |-> current.edges[m.edge_key], nav_token |-> nav_token]
         [] m.kind = "Some" /\ m.leftover.type = "OnlyToken" ->
                [ kind |-> "continue", current |-> current.edges[m.edge_key],
                  nav_token |-> m.leftover.token ]
         [] m.kind = "Some" /\ m.leftover.type = "OnlyEdge" ->
                LET b == insert_bridge(current, m.edge_key, m.common, m.leftover.edge) IN
                IF b.abort THEN [kind |-> "panic"]
                ELSE [ kind |-> "break", current |-> b.node.edges[m.edge_key],
                       nav_token |-> nav_token ]
         [] OTHER ->
                LET b == insert_bridge(current, m.edge_key, m.common, m.leftover.edge) IN
                IF b.abort THEN [kind |-> "panic"]
                ELSE [ kind |-> "continue", current |-> b.node.edges[m.edge_key],
                       nav_token |-> m.leftover.token ]

\* One iteration of the loop of traverse: kind "continue" with the locals after
\* it, "break" with the stack at the break, "none" (return None) or "panic".
traverse_step(current, nav_token, level0, stack, traverse_type) ==
    LET level == level0 + 1
        m == traverse_match(current, nav_token)
    IN CASE m.kind = "Panic" -> [kind |-> "panic"]
         [] m.kind = "None" ->
                IF traverse_type = "FoldOrPartial" /\ stack # <<>>
                THEN [kind |-> "break", stack |-> stack]
                ELSE [kind |-> "none"]
         [] m.kind = "Some" /\ m.leftover.type = "Empty" ->
                [ kind  |-> "break",
                  stack |-> traverse_fold_helper(m.next, level, stack, traverse_type) ]
         [] m.kind = "Some" /\ m.leftover.type = "OnlyToken" ->
                [ kind |-> "continue", current |-> m.next, nav_token |-> m.leftover.token,
                  level |-> level,
                  stack |-> traverse_fold_helper(m.next, level, stack, traverse_type) ]
         [] m.kind = "Some" /\ m.leftover.type = "OnlyEdge" ->
                IF traverse_type = "Fold" THEN [kind |-> "none"]
                ELSE [kind |-> "break", stack |-> stack]
         [] OTHER -> [kind |-> "none"]

\* One iteration of the while loop of capture, the stack not being empty.
capture_step(stack, replay, status, action) ==
    LET item == top(stack)
        emitted ==
            CASE action = "Prune" ->
                     [ replay |-> Append(replay, Prune(item.level, item.next_key)),
                       status |-> (status \ {"Deleted"}) \cup {"DeletedPruned"},
                       abort  |-> FALSE ]
              [] action = "Merge" ->
                     IF replay # <<>> /\ top(replay).pb = "MergeTemp"
                     THEN [ replay |-> Append(pop(replay),
                                           Merge(item.level, item.next_key, top(replay).key)),
                            status |-> status \cup {"Merged"},
                            abort  |-> FALSE ]
                     ELSE [replay |-> replay, status |-> status, abort |-> TRUE]
              [] OTHER ->
                     [ replay |-> Append(replay, Keep(item.level, item.next_key)),
                       status |-> status,
                       abort  |-> FALSE ]
    IN IF emitted.abort THEN [kind |-> "panic"]
       ELSE IF capture_passthrough(action, emitted.status, item.node)
            THEN LET merge_key == CHOOSE k \in (DOMAIN item.node.edges) \ {item.next_key} : TRUE
                 IN [ kind |-> "continue", stack |-> pop(stack),
                      replay |-> Append(emitted.replay, MergeTemp(merge_key)),
                      status |-> emitted.status, action |-> capture_action(TRUE) ]
            ELSE [ kind |-> "continue", stack |-> pop(stack), replay |-> emitted.replay,
                   status |-> emitted.status, action |-> capture_action(FALSE) ]

\* One iteration of the while loop of Node::remove, replay not being empty.
remove_step(current, replay, counter, value) ==
    LET item == top(replay)
        Walk(next, v) ==
            [ kind |-> "continue", current |-> next, replay |-> pop(replay),
              counter |-> counter + 1, value |-> v ]
    IN CASE item.pb = "Keep" /\ item.level = counter ->
                IF item.key \notin DOMAIN current.edges THEN [kind |-> "panic"]
                ELSE Walk(current.edges[item.key], value)
         [] item.pb = "Merge" /\ item.level = counter ->
                LET h == handle_passthrough(current, item.key, item.merge_key) IN
                IF h.abort THEN [kind |-> "panic"] ELSE Walk(h.passthrough, value)
         [] item.pb = "Prune" /\ item.level = counter ->
                IF item.key \notin DOMAIN current.edges THEN [kind |-> "panic"]
                ELSE Walk(current.edges[item.key], value)
         [] item.pb = "Unmark" /\ item.level = counter ->
                Walk(remove_unmark(current), current.value)
         [] OTHER -> [kind |-> "panic"]

\* The callers of the loop-by-loop calls store one value under non-empty keys.
StepTokens == NonEmptyTokens

Running == pc = "running"

\* The call in progress is in one of its loops.
InLoop == Running /\ frame.phase \in {"insert", "traverse", "capture", "remove"}

\* A call begins: it has returned nothing yet.
Begin(op, token, value) ==
    /\ pc = "idle"
    /\ call' = [op |-> op, token |-> token, value |-> value]
    /\ pre' = [trie |-> trie, ref |-> ref]

\* A call ends on the handle t and the reference map m with the outcome r.
EndCall(t, m, r) ==
    /\ trie' = IF r.abort THEN trie ELSE t
    /\ ref' = IF r.abort THEN ref ELSE m
    /\ ret' = r.result
    /\ pc' = IF r.abort THEN "aborted" ELSE "returned"
    /\ UNCHANGED << call, pre, frame >>

\* The locals once the loops of the call are over.
Left(f) == [f EXCEPT !.phase = "finish"]

\* The locals at the unreachable!() or the unwrap of None that ends the
\* process.
Panicked(f) == [f EXCEPT !.phase = "panic"]

\* The call in progress goes on with the locals f, or the process ends if it
\* has panicked.
Continue(f) ==
    /\ frame' = f
    /\ pc' = IF frame'.phase = "panic" THEN "aborted" ELSE pc
    /\ UNCHANGED << trie, ref, call, ret, pre >>

\* Trie::insert up to the loop of Node::insert on the root, made if absent.
StartInsert(token, value) ==
    /\ trie.size < StepSize
    /\ Begin("insert", token, value)
    /\ pc' = "running"
    /\ frame' = [ phase |-> "insert",
                  current |-> IF trie.root = None THEN Node_default ELSE unwrap(trie.root),
                  nav_token |-> token ]
    /\ UNCHANGED << trie, ref, ret >>

\* The locals f of Node::insert after one more iteration of its loop.
insert_next(f) ==
    LET s == insert_step(f.current, f.nav_token)
    IN CASE s.kind = "panic" -> Panicked(f)
         [] s.kind = "continue" -> [f EXCEPT !.current = s.current, !.nav_token = s.nav_token]
         [] OTHER -> Left([f EXCEPT !.current = s.current])

\* One iteration of the loop of Node::insert.
InsertStep ==
    /\ Running /\ frame.phase = "insert"
    /\ Continue(insert_next(frame))

\* The locals of traverse before its loop.
traverse_frame(node, token, traverse_type) ==
    [ phase |-> "traverse", current |-> node, nav_token |-> token, level |-> 0,
      stack |-> << TraverseItem(node, 0, None, 0) >>, type |-> traverse_type ]

\* A call that runs traverse on the root, or that returns None at once on a
\* handle without a root.
StartTraverse(op, token, traverse_type) ==
    /\ Begin(op, token, 0)
    /\ IF trie.root = None
       THEN /\ pc' = "returned"
            /\ UNCHANGED << trie, ref, ret, frame >>
       ELSE /\ pc' = "running"
            /\ frame' = traverse_frame(unwrap(trie.root), token, traverse_type)
            /\ UNCHANGED << trie, ref, ret >>

\* Trie::search: traverse with Search.
StartSearch(token) == StartTraverse("search", token, "Search")

\* Trie::longest_prefix: traverse with FoldOrPartial.
StartLongestPrefix(token) == StartTraverse("longest_prefix", token, "FoldOrPartial")

\* Trie::remove: Node::remove calls capture, which begins with traverse with
\* Fold.
StartRemove(token) == StartTraverse("remove", token, "Fold")

\* The locals of capture once it has popped the frame of the node the token
\* ends on: first is what that frame gave, stack the frames of the ancestors.
capture_frame(first, stack) ==
    [ phase |-> "capture", stack |-> stack,
      replay |-> first.replay, status |-> first.status, action |-> first.action ]

\* The locals f of traverse after one more iteration of its loop. When the
\* loop is left in the call op = "remove", capture goes on with the stack,
\* unless traverse gave None.
traverse_next(f, op) ==
    LET s == traverse_step(f.current, f.nav_token, f.level, f.stack, f.type)
    IN CASE s.kind = "panic" -> Panicked(f)
         [] s.kind = "continue" ->
                [f EXCEPT !.current = s.current, !.nav_token = s.nav_token,
                          !.level = s.level, !.stack = s.stack]
         [] s.kind = "break" /\ op = "remove" ->
                capture_frame(capture_first(top(s.stack)), pop(s.stack))
         [] OTHER -> Left(f)

\* One iteration of the loop of traverse.
TraverseStep ==
    /\ Running /\ frame.phase = "traverse"
    /\ Continue(traverse_next(frame, call.op))

\* The locals of Node::remove before its loop, with the plan capture returned.
remove_frame(node, plan) ==
    [phase |-> "remove", current |-> node, replay |-> plan, counter |-> 0, value |-> None]

\* The locals f of capture after one more iteration of its while loop, or
\* after its end: Node::remove on the node root goes on with the plan, if there
\* is one.
capture_next(f, root) ==
    IF f.stack # <<>>
    THEN LET s == capture_step(f.stack, f.replay, f.status, f.action) IN
         IF s.kind = "panic" THEN Panicked(f)
         ELSE [f EXCEPT !.stack = s.stack, !.replay = s.replay,
                        !.status = s.status, !.action = s.action]
    ELSE IF f.replay # <<>> THEN remove_frame(root, f.replay) ELSE Left(f)

\* One iteration of the while loop of capture, or its end.
CaptureStep ==
    /\ Running /\ frame.phase = "capture"
    /\ Continue(capture_next(frame, unwrap(trie.root)))

\* The locals f of Node::remove after one more iteration of its while loop, or
\* after its end.
remove_next(f) ==
    IF f.replay # <<>>
    THEN LET s == remove_step(f.current, f.replay, f.counter, f.value) IN
         IF s.kind = "panic" THEN Panicked(f)
         ELSE [f EXCEPT !.current = s.current, !.replay = s.replay,
                        !.counter = s.counter, !.value = s.value]
    ELSE Left(f)

\* One iteration of the while loop of Node::remove, or its end.
RemoveStep ==
    /\ Running /\ frame.phase = "remove"
    /\ Continue(remove_next(frame))

\* The rest of the call once its loops are over: what it leaves in the handle
\* and what it returns.
Finish ==
    /\ Running /\ frame.phase = "finish"
    /\ CASE call.op = "insert" ->
                EndCall(Trie_insert(trie, call.token, call.value).trie,
                        ref_put(ref, call.token, call.value),
                        Trie_insert(trie, call.token, call.value))
         [] call.op = "remove" ->
                EndCall(Trie_remove(trie, call.token).trie, ref_del(ref, call.token),
                        Trie_remove(trie, call.token))
         [] call.op = "search" -> EndCall(trie, ref, Trie_search(trie, call.token))
         [] OTHER -> EndCall(trie, ref, Trie_longest_prefix(trie, call.token))

\* The call in progress runs the next iteration of its loop.
Step == InsertStep \/ TraverseStep \/ CaptureStep \/ RemoveStep

NextSteps ==
    \/ \E token \in StepTokens : StartInsert(token, 1)
    \/ \E token \in StepTokens : StartSearch(token)
    \/ \E token \in StepTokens : StartLongestPrefix(token)
    \/ \E token \in StepTokens : StartRemove(token)
    \/ InsertStep
    \/ TraverseStep
    \/ CaptureStep
    \/ RemoveStep
    \/ Finish
    \/ Return

\* A call in progress is never left waiting: the one thread that runs it goes
\* on to its next iteration.
SpecSteps == Init /\ [][NextSteps]_vars /\ WF_vars(Step)

(* ---------------------------------------------------------------- claims *)

IsPrefix(p, k) == Len(p) <= Len(k) /\ SubSeq(k, 1, Len(p)) = p

\* A call has ended, by returning or by aborting the process.
Ended(op) == call.op = op /\ pc \in {"returned", "aborted"}

Returned(op) == call.op = op /\ pc = "returned"

\* The number of Key-tagged nodes reachable from node.
RECURSIVE KeyCount(_)
RECURSIVE KeyCountBelow(_, _)
KeyCount(node) ==
    (IF is_key(node) THEN 1 ELSE 0) + KeyCountBelow(node, edges_keys_iter(node))
KeyCountBelow(node, keys) ==
    IF keys = <<>> THEN 0
    ELSE KeyCount(node.edges[Head(keys)]) + KeyCountBelow(node, Tail(keys))

TrieKeyCount(t) == IF t.root = None THEN 0 ELSE KeyCount(unwrap(t.root))

\* What the search of a root (an Option<Node>) ends on.
Ends(t, token) ==
    IF t.root = None THEN [kind |-> "None"] ELSE traverse(unwrap(t.root), token, "Search")

\* The plan capture makes for token on the handle t.
PlanOf(t, token) ==
    IF t.root = None THEN [kind |-> "None"] ELSE capture(unwrap(t.root), token)

HasDirective(plan, pb) == \E i \in 1..Len(plan) : plan[i].pb = pb

\* C1: after any sequence of calls, search agrees with the reference map: a
\* stored non-empty key yields the value of its latest insert, and any other
\* non-empty token (a strict prefix of a stored key that ends inside a label or
\* on an Inner node included) yields none.
C1_SearchAgreesWithReference ==
    (Ended("search") /\ call.token # <<>>) =>
        /\ pc = "returned"
        /\ ret = IF call.token \in DOMAIN ref THEN Some(ref[call.token]) ELSE None

\* A search has returned none for a token that is not stored and ends inside
\* the compressed label of a stored key.
C1_Witness ==
    /\ Returned("search")
    /\ call.token \notin DOMAIN ref
    /\ Ends(trie, call.token).kind = "PartialTerminal"
    /\ Ends(trie, call.token).is_key
    /\ ret = None
    /\ \E k \in DOMAIN ref : IsPrefix(call.token, k) /\ ref[k] = 2

\* C2: remove is the left inverse of insert: removing a stored key k returns
\* its value, search(k) is none afterwards and size is one less.
C2_RemoveLeftInverse ==
    (Ended("remove") /\ call.token \in DOMAIN pre.ref) =>
        /\ pc = "returned"
        /\ ret = Some(pre.ref[call.token])
        /\ Trie_search(trie, call.token) = [result |-> None, abort |-> FALSE]
        /\ trie.size = pre.trie.size - 1

\* C3: removing a stored key k leaves the search result of every other
\* non-empty token as it was before the call.
C3_RemoveKeepsOtherKeys ==
    (Ended("remove") /\ call.token \in DOMAIN pre.ref) =>
        \A k \in NonEmptyTokens \ {call.token} :
            Trie_search(trie, k) = Trie_search(pre.trie, k)

\* A remove has returned the value after a prune and a secondary merge, with
\* other keys stored.
C3_Witness ==
    /\ Returned("remove")
    /\ call.token \in DOMAIN pre.ref
    /\ ret = Some(pre.ref[call.token])
    /\ HasDirective(PlanOf(pre.trie, call.token).plan, "Prune")
    /\ HasDirective(PlanOf(pre.trie, call.token).plan, "Merge")
    /\ Cardinality(DOMAIN ref) = 2

\* C4: insert(k, v) of a non-empty k returns none iff k was not stored, and
\* then size grows by one; if k was stored with v1 it returns v1, size is
\* unchanged and the node keeps its label and children; search(k) is v after.
C4_InsertResult ==
    (Ended("insert") /\ call.token # <<>>) =>
        /\ pc = "returned"
        /\ (ret = None) <=> (call.token \notin DOMAIN pre.ref)
        /\ call.token \notin DOMAIN pre.ref => trie.size = pre.trie.size + 1
        /\ call.token \in DOMAIN pre.ref =>
               /\ ret = Some(pre.ref[call.token])
               /\ trie.size = pre.trie.size
               /\ Ends(trie, call.token).kind = "Terminal"
               /\ Ends(trie, call.token).node.label = Ends(pre.trie, call.token).node.label
               /\ Ends(trie, call.token).node.edges = Ends(pre.trie, call.token).node.edges
        /\ Trie_search(trie, call.token) = [result |-> Some(call.value), abort |-> FALSE]

\* An insert has replaced the value of a stored key whose node has children.
C4_Witness ==
    /\ Returned("insert")
    /\ call.token \in DOMAIN pre.ref
    /\ ret = Some(pre.ref[call.token])
    /\ ret # Some(call.value)
    /\ Ends(trie, call.token).node.edges # NoEdges

\* C5: size integrity: when a public operation has returned, size is the
\* number of Key-tagged nodes reachable from the root and the number of items
\* the values iterator yields.
C5_SizeIntegrity ==
    pc = "returned" =>
        /\ trie.size = TrieKeyCount(trie)
        /\ trie.size = Len(Trie_values(trie))

\* C6: insert with an empty token returns none and mutates nothing.
C6_EmptyInsertNoMutation ==
    (Ended("insert") /\ call.token = <<>>) =>
        /\ pc = "returned"
        /\ ret = None
        /\ trie = pre.trie

\* C7: search and remove with an empty token return none, without aborting,
\* and leave the trie unchanged.
C7_EmptyTokenReturnsNone ==
    ( /\ Ended("search") \/ Ended("remove")
      /\ call.token = <<>>
      /\ pre.trie.root = None \/ DOMAIN pre.ref # {} ) =>
        /\ pc = "returned"
        /\ ret = None
        /\ trie = pre.trie

\* C8: remove of a non-empty token that is not stored returns none and changes
\* nothing: size and every node are as before.
C8_RemoveAbsentNoChange ==
    (Ended("remove") /\ call.token # <<>> /\ call.token \notin DOMAIN pre.ref) =>
        /\ pc = "returned"
        /\ ret = None
        /\ trie = pre.trie

\* A remove has returned for a token that ends exactly on an Inner node.
C8_Witness ==
    /\ Returned("remove")
    /\ call.token \notin DOMAIN pre.ref
    /\ Ends(pre.trie, call.token).kind = "Terminal"
    /\ ~Ends(pre.trie, call.token).is_key
    /\ PlanOf(pre.trie, call.token).kind = "Some"
    /\ ret = None

\* The longest key of the reference map m that is a prefix of token, if any.
LongestStoredPrefix(m, token) ==
    LET P == {s \in DOMAIN m : IsPrefix(s, token)} IN
    IF P = {} THEN None
    ELSE Some(CHOOSE s \in P : \A q \in P : Len(q) <= Len(s))

\* C9: longest_prefix(k) of a non-empty k yields the longest stored key that is
\* a prefix of k, and none exactly when no stored key is a prefix of k.
C9_LongestPrefix ==
    (Ended("longest_prefix") /\ call.token # <<>>) =>
        /\ pc = "returned"
        /\ ret = LongestStoredPrefix(ref, call.token)

\* How often key occurs in list.
Occurrences(list, key) == Cardinality({i \in 1..Len(list) : list[i] = key})

\* C10: when all_keys(p) of a non-empty p returns a list, the list holds every
\* stored key that has p as a prefix exactly once, and nothing else.
C10_AllKeys ==
    (Ended("all_keys") /\ call.token # <<>>) =>
        /\ pc = "returned"
        /\ is_some(ret) =>
               /\ \A i \in 1..Len(unwrap(ret)) :
                      unwrap(ret)[i] \in DOMAIN ref /\ IsPrefix(call.token, unwrap(ret)[i])
               /\ \A k \in DOMAIN ref :
                      IsPrefix(call.token, k) => Occurrences(unwrap(ret), k) = 1

\* all_keys has returned two keys or more for a prefix that ends inside a
\* compressed label.
C10_Witness ==
    /\ Returned("all_keys")
    /\ Ends(trie, call.token).kind = "PartialTerminal"
    /\ is_some(ret)
    /\ Len(unwrap(ret)) >= 2

\* C11: all_keys(p) of a non-empty p returns none exactly when no stored key
\* has p as a prefix, and it never returns an empty list.
C11_AllKeysNone ==
    (Ended("all_keys") /\ call.token # <<>>) =>
        /\ pc = "returned"
        /\ ret = None <=> ~\E k \in DOMAIN ref : IsPrefix(call.token, k)
        /\ ret # Some(<<>>)

\* all_keys has returned none on a handle that still has its root after every
\* key it held was removed.
C11_Witness ==
    /\ Returned("all_keys")
    /\ call.token # <<>>
    /\ trie.root # None
    /\ trie.size = 0
    /\ ret = None

\* The nodes of the subtree at node, node included.
RECURSIVE Nodes(_)
Nodes(node) == {node} \cup UNION {Nodes(node.edges[b]) : b \in DOMAIN node.edges}

\* The nodes of the handle t, and those below its root.
AllNodes(t) == IF t.root = None THEN {} ELSE Nodes(unwrap(t.root))

NonRootNodes(t) ==
    IF t.root = None THEN {}
    ELSE UNION {Nodes(unwrap(t.root).edges[b]) : b \in DOMAIN unwrap(t.root).edges}

\* C12 as stated: after every call that returns with a key stored, no Inner
\* node, the root included, has fewer than two outgoing edges.
C12_RadixCompressionWithRoot ==
    (pc = "returned" /\ DOMAIN ref # {}) => \A n \in AllNodes(trie) : ~is_key(n) => edge_type(n) >= 2

\* C12, amended: after every call that returns, no Inner node other than the
\* root has fewer than two outgoing edges.
C12_RadixCompression ==
    pc = "returned" => \A n \in NonRootNodes(trie) : ~is_key(n) => edge_type(n) >= 2

\* A remove whose plan held a Merge has returned and the trie still has an
\* Inner node below its root.
C12_Witness ==
    /\ Returned("remove")
    /\ PlanOf(pre.trie, call.token).kind = "Some"
    /\ HasDirective(PlanOf(pre.trie, call.token).plan, "Merge")
    /\ is_some(ret)
    /\ \E n \in NonRootNodes(trie) : ~is_key(n)

\* C13: in every trie the calls reach, every entry (b, C) of every node's
\* edges table has C's label present, non-empty and starting with byte b, and
\* the root's label is absent.
C13_LabelFirstByte ==
    (pc # "aborted" /\ trie.root # None) =>
        /\ unwrap(trie.root).label = None
        /\ \A P \in AllNodes(trie) : \A b \in DOMAIN P.edges :
               /\ is_some(P.edges[b].label)
               /\ unwrap(P.edges[b].label) # <<>>
               /\ unwrap(P.edges[b].label)[1] = b

\* An insert has returned that split an edge of the root by a bridge node: the
\* token and the label diverged after a common prefix.
C13_Witness ==
    /\ Returned("insert")
    /\ pre.trie.root # None
    /\ traverse_match(unwrap(pre.trie.root), call.token).kind = "Some"
    /\ traverse_match(unwrap(pre.trie.root), call.token).leftover.type = "BothEdgeToken"
    /\ \E n \in NonRootNodes(trie) : ~is_key(n) /\ n \notin AllNodes(pre.trie)

\* C14: in every trie the calls reach, a node holds a value if and only if its
\* tag is Key, and the root is not tagged Key and holds no value.
C14_KeyTagExclusivity ==
    (pc # "aborted" /\ trie.root # None) =>
        /\ \A n \in AllNodes(trie) : is_some(n.value) <=> is_key(n)
        /\ ~is_key(unwrap(trie.root))
        /\ unwrap(trie.root).value = None

\* A remove has returned the value of a key whose node stays in the trie as an
\* Inner node while another Key node remains.
C14_Witness ==
    /\ Returned("remove")
    /\ is_some(ret)
    /\ Ends(trie, call.token).kind = "Terminal"
    /\ ~Ends(trie, call.token).is_key
    /\ \E n \in NonRootNodes(trie) : is_key(n) /\ is_some(n.value)

\* C15: after every call that returns, is_empty() is true exactly when no key
\* is stored; so it is after the remove of the last key.
C15_IsEmpty ==
    pc = "returned" => (Trie_is_empty(trie) <=> DOMAIN ref = {})

\* The edge bytes k_0 .. k_(L-1) from node down to the node a stored token
\* ends on, and the nodes on the way, node first.
RECURSIVE EdgePath(_, _)
EdgePath(node, token) ==
    IF token = <<>> THEN <<>>
    ELSE LET child == node.edges[token[1]]
         IN << token[1] >>
            \o EdgePath(child, SubSeq(token, Len(unwrap(child.label)) + 1, Len(token)))

RECURSIVE NodePath(_, _)
NodePath(node, token) ==
    IF token = <<>> THEN << node >>
    ELSE LET child == node.edges[token[1]]
         IN << node >>
            \o NodePath(child, SubSeq(token, Len(unwrap(child.label)) + 1, Len(token)))

\* [Unmark(Node(L)), Prune(Link(L-1, k_(L-1))), Keep(Link(L-2, k_(L-2))), ...,
\* Keep(Link(0, k_0))] for the edge bytes k, k[j] being k_(j-1).
LeafPlan(k) ==
    << Unmark(Len(k)), Prune(Len(k) - 1, k[Len(k)]) >>
    \o [i \in 1..(Len(k) - 1) |-> Keep(Len(k) - 1 - i, k[Len(k) - i])]

\* The stored token ends on a childless Key node of the handle t whose parent
\* is a Key node or has a number of outgoing edges other than two.
IsPlainLeaf(t, token) ==
    LET nodes == NodePath(unwrap(t.root), token)
        T == nodes[Len(nodes)]
        parent == nodes[Len(nodes) - 1]
    IN /\ is_key(T) /\ edge_type(T) = 0
       /\ is_key(parent) \/ edge_type(parent) # 2

\* C16: for a token stored at a childless Key node at level L whose parent is
\* a Key node or has a number of outgoing edges other than two, the plan remove
\* gets from capture is exactly Unmark(Node(L)), Prune(Link(L-1, k_(L-1))),
\* then Keep(Link(i, k_i)) for i = L-2 down to 0.
C16_LeafPlan ==
    (Ended("remove") /\ call.token \in DOMAIN pre.ref /\ IsPlainLeaf(pre.trie, call.token)) =>
        PlanOf(pre.trie, call.token) =
            [kind |-> "Some", plan |-> LeafPlan(EdgePath(unwrap(pre.trie.root), call.token))]

\* A remove has returned for a leaf at level 2 under an Inner parent with
\* three outgoing edges.
C16_Witness ==
    /\ Returned("remove")
    /\ call.token \in DOMAIN pre.ref
    /\ IsPlainLeaf(pre.trie, call.token)
    /\ Len(EdgePath(unwrap(pre.trie.root), call.token)) = 2
    /\ LET nodes == NodePath(unwrap(pre.trie.root), call.token)
       IN ~is_key(nodes[2]) /\ edge_type(nodes[2]) = 3

\* The node reached from node along the edge bytes keys.
RECURSIVE NodeAlong(_, _)
NodeAlong(node, keys) ==
    IF keys = <<>> THEN node ELSE NodeAlong(node.edges[Head(keys)], Tail(keys))

\* The stored token ends on a childless Key node of the handle t whose parent
\* A is Inner with exactly two outgoing edges: the planner emits Prune at A.
PrunesAtPassthrough(t, token) ==
    LET nodes == NodePath(unwrap(t.root), token)
        T == nodes[Len(nodes)]
        A == nodes[Len(nodes) - 1]
    IN /\ is_key(T) /\ edge_type(T) = 0
       /\ ~is_key(A) /\ edge_type(A) = 2

\* What C17 says of a remove whose Prune is emitted at such an A, k being the
\* edge bytes to the token's node, nodes the nodes on the way and plan the
\* directives in the order capture pushed them.
SecondaryMerge(k, nodes, plan) ==
    LET L == Len(k)
        A == nodes[L]
        g == CHOOSE b \in DOMAIN A.edges : b # k[L]
    IN /\ L >= 2
       /\ Len(plan) >= 3
       /\ plan[2] = Prune(L - 1, k[L])
       /\ plan[3] = Merge(L - 2, k[L - 1], g)
       /\ pc = "returned"
       /\ NodeAlong(unwrap(trie.root), SubSeq(k, 1, L - 1)) =
              [A.edges[g] EXCEPT !.label = Some(unwrap(A.label) \o unwrap(A.edges[g].label))]

\* C17: whenever the planner emits Prune at an ancestor A that is Inner with
\* exactly two outgoing edges, the next directive is Merge(DoubleLink(level of
\* A's parent, edge byte to A, g)), g the byte of A's other child, and after
\* remove returns that child is in A's place under A's old edge byte, its
\* label A.label ++ child.label and its tag, value and edges unchanged.
C17_SecondaryMerge ==
    (/\ Ended("remove")
     /\ call.token \in DOMAIN pre.ref
     /\ PrunesAtPassthrough(pre.trie, call.token)) =>
        /\ PlanOf(pre.trie, call.token).kind = "Some"
        /\ SecondaryMerge(EdgePath(unwrap(pre.trie.root), call.token),
                          NodePath(unwrap(pre.trie.root), call.token),
                          PlanOf(pre.trie, call.token).plan)

\* The orders in which the keys of the set S can be inserted.
Orders(S) ==
    {f \in [1..Cardinality(S) -> S] : \A i, j \in 1..Cardinality(S) : f[i] = f[j] => i = j}

\* The handle after the keys order[i..] are inserted into t with their values
\* in the map m.
RECURSIVE InsertAll(_, _, _, _)
InsertAll(t, order, m, i) ==
    IF i > Len(order) THEN t
    ELSE InsertAll(Trie_insert(t, order[i], m[order[i]]).trie, order, m, i + 1)

\* The edges table of the root: the tree below the root.
RootEdges(t) == IF t.root = None THEN NoEdges ELSE unwrap(t.root).edges

\* C18: after every insert or remove that returns, the tree below the root
\* (labels, tags, values, edge keys) is the one a fresh trie gets from inserts
\* of the keys now stored with their current values, in whatever order.
C18_CanonicalStructure ==
    (pc = "returned" /\ call.op \in {"insert", "remove"}) =>
        \A order \in Orders(DOMAIN ref) :
            RootEdges(InsertAll(Trie_new, order, ref, 1)) = RootEdges(trie)

\* A remove that merged a node into its parent's edge has returned and two
\* keys or more are still stored, one of them with an overwritten value.
C18_Witness ==
    /\ Returned("remove")
    /\ is_some(ret)
    /\ HasDirective(PlanOf(pre.trie, call.token).plan, "Merge")
    /\ Cardinality(DOMAIN ref) >= 2
    /\ \E k \in DOMAIN ref : ref[k] = 2

\* How many Key nodes of the subtree at node have the label and the value of
\* the pair p.
RECURSIVE PairCount(_, _)
RECURSIVE PairCountBelow(_, _, _)
PairCount(node, p) ==
    (IF is_key(node) /\ node.label = Some(p[1]) /\ node.value = Some(p[2]) THEN 1 ELSE 0)
    + PairCountBelow(node, edges_keys_iter(node), p)
PairCountBelow(node, keys, p) ==
    IF keys = <<>> THEN 0
    ELSE PairCount(node.edges[Head(keys)], p) + PairCountBelow(node, Tail(keys), p)

\* The (label, value) pairs of the nodes of t that have both.
Pairs(t) ==
    {<< unwrap(n.label), unwrap(n.value) >> :
        n \in {x \in AllNodes(t) : is_some(x.label) /\ is_some(x.value)}}

\* C19: the leaf-pair iterator yields one (label, value) item per Key node,
\* the label being the node's own edge fragment, and nothing for the root or
\* an Inner node.
C19_LeafPairs ==
    Ended("iter") =>
        /\ pc = "returned"
        /\ Len(ret) = TrieKeyCount(trie)
        /\ \A p \in Pairs(trie) \cup {ret[i] : i \in 1..Len(ret)} :
               Occurrences(ret, p) = PairCount(unwrap(trie.root), p)

\* The iterator has ended on a trie with an Inner node below the root and a
\* Key node whose label is not the whole key.
C19_Witness ==
    /\ Returned("iter")
    /\ Len(ret) >= 2
    /\ \E n \in NonRootNodes(trie) : ~is_key(n)
    /\ \E i \in 1..Len(ret) : ret[i][1] \notin DOMAIN ref

\* The nodes of the subtree at node, each once, node first.
RECURSIVE Preorder(_)
RECURSIVE PreorderBelow(_, _)
Preorder(node) == << node >> \o PreorderBelow(node, edges_keys_iter(node))
PreorderBelow(node, keys) ==
    IF keys = <<>> THEN <<>>
    ELSE Preorder(node.edges[Head(keys)]) \o PreorderBelow(node, Tail(keys))

\* The nodes of the handle t below its root, each once.
NodesBelowRoot(t) == IF t.root = None THEN <<>> ELSE Tail(Preorder(unwrap(t.root)))

\* list holds x as often as the nodes hold it in the field read by their
\* index in fields (a sequence of Option values, one per node).
SameCounts(list, fields) ==
    /\ Len(list) = Cardinality({i \in 1..Len(fields) : is_some(fields[i])})
    /\ \A j \in 1..Len(list) :
           Occurrences(list, list[j]) =
               Cardinality({i \in 1..Len(fields) : fields[i] = Some(list[j])})

\* C20: driven to its end, labels() yields the label of every node below the
\* root once, values() and the owning into_iter() yield the value of every Key
\* node once, and the value iterators yield nothing without a root or a key.
C20_IteratorsVisitOnce ==
    /\ Ended("labels") =>
           /\ pc = "returned"
           /\ Len(ret) = Len(NodesBelowRoot(trie))
           /\ SameCounts(ret, [i \in 1..Len(NodesBelowRoot(trie)) |-> NodesBelowRoot(trie)[i].label])
    /\ Ended("values") =>
           /\ pc = "returned"
           /\ SameCounts(ret, [i \in 1..Len(NodesBelowRoot(trie)) |-> NodesBelowRoot(trie)[i].value])
           /\ DOMAIN ref = {} => ret = <<>>
    /\ Ended("into_iter") =>
           /\ pc = "returned"
           /\ SameCounts(ret, [i \in 1..Len(NodesBelowRoot(pre.trie)) |->
                                   NodesBelowRoot(pre.trie)[i].value])
           /\ DOMAIN pre.ref = {} => ret = <<>>

\* labels() has ended on a trie in which two nodes carry the same label.
C20_Witness ==
    /\ Returned("labels")
    /\ Len(ret) >= 4
    /\ \E i, j \in 1..Len(ret) : i # j /\ ret[i] = ret[j]

\* The subtree at node with the values left out: labels, tags, edges tables.
RECURSIVE Shape(_)
Shape(node) ==
    [ label |-> node.label, tag |-> node.tag,
      edges |-> [b \in DOMAIN node.edges |-> Shape(node.edges[b])] ]

TrieShape(t) == IF t.root = None THEN None ELSE Some(Shape(unwrap(t.root)))

\* C21: a mutable value iteration (values_mut, iter_mut) leaves every node's
\* label, tag and edges table and the size counter as they were, and a later
\* search or remove of a stored key returns the value the caller wrote.
C21_MutableIteration ==
    (Ended("values_mut") \/ Ended("iter_mut")) =>
        /\ pc = "returned"
        /\ trie.size = pre.trie.size
        /\ TrieShape(trie) = TrieShape(pre.trie)
        /\ \A k \in DOMAIN pre.ref :
               /\ Trie_search(trie, k) =
                      [result |-> Some(call.value[pre.ref[k]]), abort |-> FALSE]
               /\ ~Trie_remove(trie, k).abort
               /\ Trie_remove(trie, k).result = Some(call.value[pre.ref[k]])

\* The executor pops plan from its end: the directive popped at counter i.
Popped(plan, i) == plan[Len(plan) - i]

\* What C22 says of a plan and of the remove that executes it.
ExecutorSafe(plan) ==
    /\ pc = "returned"
    /\ ~HasDirective(plan, "MergeTemp")
    /\ \A i \in 0..(Len(plan) - 1) :
           /\ Popped(plan, i).pb \in {"Keep", "Merge", "Prune", "Unmark"}
           /\ Popped(plan, i).level = i
    /\ HasDirective(plan, "Unmark") => plan[1].pb = "Unmark"

\* C22: for every plan capture returns, Node::remove reaches no unreachable
\* branch and unwraps no missing edge: the directives it pops are Keep, Merge,
\* Prune or Unmark at levels 0, 1, 2, ..., no MergeTemp is left in the plan and
\* the Unmark is applied last.
C22_ExecutorSafety ==
    (Ended("remove") /\ PlanOf(pre.trie, call.token).kind = "Some") =>
        ExecutorSafe(PlanOf(pre.trie, call.token).plan)

\* C23: when the token is consumed exactly at a node that is not a Key node,
\* the plan capture returns to remove is none.
C23_PlannerNoneOnInner ==
    (/\ Ended("remove")
     /\ call.token # <<>>
     /\ Ends(pre.trie, call.token).kind = "Terminal"
     /\ ~Ends(pre.trie, call.token).is_key) =>
        PlanOf(pre.trie, call.token).kind = "None"

\* The stored token ends on a Key node of the handle t with exactly one child.
IsSingleChildKey(t, token) ==
    LET nodes == NodePath(unwrap(t.root), token)
    IN is_key(nodes[Len(nodes)]) /\ edge_type(nodes[Len(nodes)]) = 1

\* [Unmark(Node(L)), Merge(DoubleLink(L-1, k_(L-1), g)), Keep(Link(L-2,
\* k_(L-2))), ..., Keep(Link(0, k_0))] for the edge bytes k, k[j] being k_(j-1).
MergePlan(k, g) ==
    << Unmark(Len(k)), Merge(Len(k) - 1, k[Len(k)], g) >>
    \o [i \in 1..(Len(k) - 1) |-> Keep(Len(k) - 1 - i, k[Len(k) - i])]

\* What C24 says of the remove of the Key node T = nodes[L + 1] with its only
\* child under edge byte g: the plan, and the child in T's place afterwards.
SingleChildMerge(k, nodes, plan) ==
    LET L == Len(k)
        T == nodes[L + 1]
        g == CHOOSE b \in DOMAIN T.edges : TRUE
    IN /\ plan = [kind |-> "Some", plan |-> MergePlan(k, g)]
       /\ pc = "returned"
       /\ NodeAlong(unwrap(trie.root), k) =
              [T.edges[g] EXCEPT !.label = Some(unwrap(T.label) \o unwrap(T.edges[g].label))]

\* C24: removing a Key node T with exactly one child: the plan is
\* Unmark(Node(L)), Merge(DoubleLink(L-1, edge byte into T, g)), then Keeps
\* down to level 0, without a Prune, and afterwards T's child is in T's place
\* under T's old edge byte with label T.label ++ child.label, its tag, value
\* and edges unchanged.
C24_SingleChildMerge ==
    (/\ Ended("remove")
     /\ call.token \in DOMAIN pre.ref
     /\ IsSingleChildKey(pre.trie, call.token)) =>
        SingleChildMerge(EdgePath(unwrap(pre.trie.root), call.token),
                         NodePath(unwrap(pre.trie.root), call.token),
                         PlanOf(pre.trie, call.token))

\* A Key node at level 2 with exactly one child has been removed, so that the
\* plan ends with a Keep below the Merge.
C24_Witness ==
    /\ Returned("remove")
    /\ call.token \in DOMAIN pre.ref
    /\ IsSingleChildKey(pre.trie, call.token)
    /\ Len(EdgePath(unwrap(pre.trie.root), call.token)) = 2

\* node with the node reached along the edge bytes keys replaced by new.
RECURSIVE ReplaceAlong(_, _, _)
ReplaceAlong(node, keys, new) ==
    IF keys = <<>> THEN new
    ELSE [node EXCEPT !.edges[keys[1]] = ReplaceAlong(node.edges[keys[1]], Tail(keys), new)]

\* The stored token ends on a Key node of the handle t with two or more
\* children.
IsBranchingKey(t, token) ==
    LET nodes == NodePath(unwrap(t.root), token)
    IN is_key(nodes[Len(nodes)]) /\ edge_type(nodes[Len(nodes)]) >= 2

\* [Unmark(Node(L)), Keep(Link(L-1, k_(L-1))), ..., Keep(Link(0, k_0))]
UnmarkPlan(k) ==
    << Unmark(Len(k)) >> \o [i \in 1..Len(k) |-> Keep(Len(k) - i, k[Len(k) - i + 1])]

\* What C25 says of the remove of the Key node T at the end of the edge bytes
\* k: the plan, and the trie afterwards, which is the one before with T's tag
\* Inner and T's value absent.
UnmarkOnly(k, T, plan) ==
    /\ plan = [kind |-> "Some", plan |-> UnmarkPlan(k)]
    /\ pc = "returned"
    /\ trie.root = Some(ReplaceAlong(unwrap(pre.trie.root), k,
                                     [T EXCEPT !.tag = "Inner", !.value = None]))

\* C25: removing a Key node T with two or more children: the plan is
\* Unmark(Node(L)) followed only by Keep directives, and afterwards the only
\* change in the trie is that T's tag is Inner and its value absent; T's label
\* and edges and every other node are unchanged.
C25_UnmarkOnly ==
    (/\ Ended("remove")
     /\ call.token \in DOMAIN pre.ref
     /\ IsBranchingKey(pre.trie, call.token)) =>
        UnmarkOnly(EdgePath(unwrap(pre.trie.root), call.token),
                   top(NodePath(unwrap(pre.trie.root), call.token)),
                   PlanOf(pre.trie, call.token))

\* A Key node with two or more children has been removed and is now Inner.
C25_Witness ==
    /\ Returned("remove")
    /\ call.token \in DOMAIN pre.ref
    /\ IsBranchingKey(pre.trie, call.token)
    /\ NodeAlong(unwrap(trie.root), EdgePath(unwrap(pre.trie.root), call.token)).tag = "Inner"

\* The number of directives of a plan that are pb.
DirectiveCount(plan, pb) == Cardinality({i \in 1..Len(plan) : plan[i].pb = pb})

\* At most one Prune, at most one Merge, and a Merge pushed after a Prune is for
\* the level just above the Prune's.
PruneMergeShape(plan) ==
    /\ DirectiveCount(plan, "Prune") <= 1
    /\ DirectiveCount(plan, "Merge") <= 1
    /\ \A i, j \in 1..Len(plan) :
           (plan[i].pb = "Prune" /\ plan[j].pb = "Merge" /\ i < j) =>
               plan[j].level = plan[i].level - 1

\* C26: every plan capture returns contains at most one Prune directive and at
\* most one Merge directive (so never two Merges), and a Merge that follows a
\* Prune sits exactly one level above it.
C26_PruneMergeShape ==
    (Ended("remove") /\ PlanOf(pre.trie, call.token).kind = "Some") =>
        PruneMergeShape(PlanOf(pre.trie, call.token).plan)

\* A remove has run on a plan holding a Prune at level 1 and a Merge at level 0.
C26_Witness ==
    /\ Returned("remove")
    /\ PlanOf(pre.trie, call.token).kind = "Some"
    /\ LET plan == PlanOf(pre.trie, call.token).plan
       IN \E i, j \in 1..Len(plan) :
              /\ i < j
              /\ plan[i].pb = "Prune" /\ plan[i].level = 1
              /\ plan[j].pb = "Merge" /\ plan[j].level = 0

\* Where the descent of Node::insert from current with nav_token splits an
\* edge: the parent and the KeyMatch there, or found = FALSE when it splits
\* none.
RECURSIVE SplitSite(_, _)
SplitSite(current, nav_token) ==
    LET m == traverse_match(current, nav_token)
    IN CASE m.kind = "Some" /\ m.leftover.type \in {"OnlyEdge", "BothEdgeToken"} ->
                [found |-> TRUE, parent |-> current, m |-> m]
         [] m.kind = "Some" /\ m.leftover.type = "OnlyToken" ->
                SplitSite(current.edges[m.edge_key], m.leftover.token)
         [] OTHER -> [found |-> FALSE]

\* The split site of the insert of token into the handle t.
SplitOf(t, token) ==
    IF t.root = None \/ token = <<>> THEN [found |-> FALSE]
    ELSE SplitSite(unwrap(t.root), token)

\* What C27 says of the split of the edge b of parent at common-prefix length
\* L, after being the parent insert_bridge leaves.
BridgeSplit(parent, b, L, after) ==
    LET old_child == parent.edges[b]
        old_label == unwrap(old_child.label)
        bridge == after.edges[b]
    IN /\ 1 <= L /\ L < Len(old_label)
       /\ DOMAIN after.edges = DOMAIN parent.edges
       /\ \A k \in DOMAIN parent.edges \ {b} : after.edges[k] = parent.edges[k]
       /\ [after EXCEPT !.edges = parent.edges] = parent
       /\ bridge.tag = "Inner" /\ bridge.value = None
       /\ bridge.label = Some(SubSeq(old_label, 1, L))
       /\ DOMAIN bridge.edges = {old_label[L + 1]}
       /\ bridge.edges[old_label[L + 1]] =
              [old_child EXCEPT !.label = Some(SubSeq(old_label, L + 1, Len(old_label)))]
       /\ unwrap(bridge.label) \o unwrap(bridge.edges[old_label[L + 1]].label) = old_label

\* The split made at the site s.
BridgeSplitAt(s) ==
    LET b == insert_bridge(s.parent, s.m.edge_key, s.m.common, s.m.leftover.edge)
    IN ~b.abort /\ BridgeSplit(s.parent, s.m.edge_key, Len(s.m.common), b.node)

\* C27: splitting the edge b -> old_child at common-prefix length L, 1 <= L <
\* length of the old label, leaves the parent with an edge b -> bridge, bridge
\* being Inner with label old_label[..L] and exactly one edge old_label[L] ->
\* old_child; old_child's label is old_label[L..] and its tag, value and edges
\* are unchanged; the parent's other edges are unchanged; bridge.label ++
\* old_child.label is the old label.
C27_BridgeSplit ==
    (Ended("insert") /\ SplitOf(pre.trie, call.token).found) =>
        BridgeSplitAt(SplitOf(pre.trie, call.token))

\* An insert has split the edge to a Key node that has a child of its own.
C27_Witness ==
    /\ Returned("insert")
    /\ SplitOf(pre.trie, call.token).found
    /\ LET s == SplitOf(pre.trie, call.token)
       IN is_key(s.parent.edges[s.m.edge_key]) /\ edge_type(s.parent.edges[s.m.edge_key]) >= 1

\* The Merge directive of a plan that holds one.
MergeOf(plan) == plan[CHOOSE i \in 1..Len(plan) : plan[i].pb = "Merge"]

\* What C28 says of handle_passthrough(c, g) at the node C, h being what it
\* gives: C's edge c now leads to Y' = Y.edges[g] labelled Y.label ++ Y'.label,
\* and the detached Y is returned with its other edges.
PassthroughMerge(C, c, g, h) ==
    LET Y == C.edges[c]
        Yp == Y.edges[g]
    IN /\ ~h.abort
       /\ DOMAIN h.node.edges = DOMAIN C.edges
       /\ \A k \in DOMAIN C.edges \ {c} : h.node.edges[k] = C.edges[k]
       /\ [h.node EXCEPT !.edges = C.edges] = C
       /\ h.node.edges[c] = [Yp EXCEPT !.label = Some(unwrap(Y.label) \o unwrap(Yp.label))]
       /\ h.passthrough.tag = Y.tag /\ h.passthrough.value = Y.value
       /\ DOMAIN h.passthrough.edges = DOMAIN Y.edges \ {g}
       /\ \A k \in DOMAIN Y.edges \ {g} : h.passthrough.edges[k] = Y.edges[k]

\* The merge the directive d asks for on the way along the edge bytes k from
\* root, and the node at d's level once the remove has returned.
PassthroughMergeAt(root, k, d) ==
    /\ PassthroughMerge(NodeAlong(root, SubSeq(k, 1, d.level)), d.key, d.merge_key,
                        handle_passthrough(NodeAlong(root, SubSeq(k, 1, d.level)),
                                           d.key, d.merge_key))
    /\ pc = "returned"
    /\ NodeAlong(unwrap(trie.root), SubSeq(k, 1, d.level)) =
           handle_passthrough(NodeAlong(root, SubSeq(k, 1, d.level)), d.key, d.merge_key).node

\* The remove of the stored token on the handle t has a Merge in its plan.
PlansMerge(t, token) ==
    /\ token \in DOMAIN pre.ref
    /\ PlanOf(t, token).kind = "Some"
    /\ HasDirective(PlanOf(t, token).plan, "Merge")

\* C28: handle_passthrough(c, g) at node C removes child Y at edge c and Y's
\* child Y' at edge g, re-inserts Y' into C under c with label Y.label ++
\* Y'.label, keeps Y' tag, value and edges and all of C's other edges, and
\* returns the detached Y, which still owns its remaining edges.
C28_PassthroughMerge ==
    (Ended("remove") /\ PlansMerge(pre.trie, call.token)) =>
        PassthroughMergeAt(unwrap(pre.trie.root),
                           EdgePath(unwrap(pre.trie.root), call.token),
                           MergeOf(PlanOf(pre.trie, call.token).plan))

\* A remove has merged a node Y' that has edges of its own into its
\* grandparent.
C28_Witness ==
    /\ Returned("remove")
    /\ PlansMerge(pre.trie, call.token)
    /\ LET d == MergeOf(PlanOf(pre.trie, call.token).plan)
           C == NodeAlong(unwrap(pre.trie.root),
                          SubSeq(EdgePath(unwrap(pre.trie.root), call.token), 1, d.level))
       IN edge_type(C.edges[d.key].edges[d.merge_key]) >= 1

\* The level of the non-root node that taking the stored token out of the
\* handle t would leave Inner with one child: the token's own node T (at level
\* L) when T has one child, T's parent when T is a leaf and the parent a
\* non-root Inner node with two edges; 0 when there is no such node.
PassthroughLevel(t, token) ==
    LET nodes == NodePath(unwrap(t.root), token)
        L == Len(nodes) - 1
    IN CASE edge_type(nodes[L + 1]) = 1 -> L
         [] /\ edge_type(nodes[L + 1]) = 0 /\ L >= 2
            /\ ~is_key(nodes[L]) /\ edge_type(nodes[L]) = 2 -> L - 1
         [] OTHER -> 0

\* The plan merges away the node at level p >= 1 of the path along the edge
\* bytes k: it holds Merge(DoubleLink(p - 1, k_(p-1), _)).
MergesAway(plan, k, p) ==
    /\ plan.kind = "Some"
    /\ \E i \in 1..Len(plan.plan) :
           /\ plan.plan[i].pb = "Merge"
           /\ plan.plan[i].level = p - 1
           /\ plan.plan[i].key = k[p]

\* C29: after any sequence of inserts and removes of non-empty keys every
\* non-root Inner node has at least two outgoing edges (only the root may be
\* Inner with none or one), and a remove that would leave a non-root Inner node
\* with one child plans the Merge of that node and returns, the node being
\* merged away in that same call.
C29_NoPassthroughLeft ==
    /\ \A n \in NonRootNodes(trie) : ~is_key(n) => edge_type(n) >= 2
    /\ (/\ Ended("remove")
        /\ call.token # <<>> /\ call.token \in DOMAIN pre.ref
        /\ PassthroughLevel(pre.trie, call.token) >= 1) =>
           /\ pc = "returned"
           /\ MergesAway(PlanOf(pre.trie, call.token),
                         EdgePath(unwrap(pre.trie.root), call.token),
                         PassthroughLevel(pre.trie, call.token))

\* A remove of a leaf whose parent was a non-root Inner node with two edges has
\* returned: the parent is merged away.
C29_Witness ==
    /\ Returned("remove")
    /\ call.token # <<>> /\ call.token \in DOMAIN pre.ref
    /\ PassthroughLevel(pre.trie, call.token) >= 1
    /\ edge_type(top(NodePath(unwrap(pre.trie.root), call.token))) = 0

\* An iteration after which the loop goes on has shortened nav_token (the loops
\* of Node::insert and traverse) or popped one element of the stack (capture)
\* or of the plan (Node::remove).
Shortens ==
    (InLoop /\ InLoop' /\ frame'.phase = frame.phase) =>
        CASE frame.phase \in {"insert", "traverse"} ->
                 Len(frame'.nav_token) < Len(frame.nav_token)
          [] frame.phase = "capture" -> frame'.stack = pop(frame.stack)
          [] OTHER -> frame'.replay = pop(frame.replay)

\* C30: for every non-empty token and every trie inserts and removes reach, the
\* descent loops of Node::insert and traverse and the plan loops of capture and
\* Node::remove finish after finitely many iterations: every iteration that
\* continues strictly shortens the remaining token or pops one stack element,
\* and a call that is in a loop gets out of its loops.
C30_Termination == [][Shortens]_vars /\ (InLoop ~> ~InLoop)

\* A remove has left its loops after three iterations of the loop of
\* Node::remove.
C30_Witness ==
    /\ Running /\ frame.phase = "finish"
    /\ call.op = "remove"
    /\ "counter" \in DOMAIN frame
    /\ frame.counter = 3

====
